---- MODULE Spec2Model ----
(***************************************************************************)
(* Verification model of the gesture-driven image transform of             *)
(* src/components/ZoomableImage.tsx.                                       *)
(*                                                                         *)
(* Numbers are fixed point.  A scale s is held as the integer s*ScaleDen,  *)
(* a translation t (pixels) as the integer t*2*ScaleDen, so that the pan   *)
(* bound width*(scale-1)/2 is the integer width*(scaleUnits-ScaleDen) and  *)
(* every value the handlers compute from the enumerated inputs is exact.   *)
(***************************************************************************)
EXTENDS Integers, Sequences, FiniteSets, TLC

\* Resolution of the fixed-point scale grid (scale unit = 1/ScaleDen).
ScaleDen == 2

\* Translation units per pixel.
PxUnits == 2 * ScaleDen

MIN_SCALE == 1
MAX_SCALE == 4

\* width/height props an instance is mounted with (pixels).
Sizes == { <<300, 400>> }

\* e.scale of a pinch update, as a fraction <<numerator, denominator>>.
PinchScales == { <<1, 100>>, <<1, 2>>, <<3, 2>>, <<2, 1>>, <<100, 1>> }

\* <<e.translationX, e.translationY>> of a pan update (pixels).
PanDeltas == { <<300, 0>>, <<-300, 0>>, <<0, 400>>, <<-75, -100>>, <<0, 0>> }

VARIABLES
    width, height,                      \* props
    scale, savedScale,                  \* shared values
    translateX, translateY,
    savedTranslateX, savedTranslateY,
    pinchActive, panActive,             \* gesture recognizer latches
    last,                               \* the callback that ran last
    impl,                               \* which copy of ApiService is built in
    token,                              \* AsyncStorage item 'auth_token'
    calls,                              \* the makeRequest calls in progress
    cars,                               \* CarsScreen: useState `cars`
    updatingStatus,                     \* CarsScreen: useState `updatingStatus`
    serverCars,                         \* car_status of each car at the server
    toggles,                            \* handleToggleStatus calls in progress
    transfers,                          \* TransfersScreen: useState `transfers`
    pendingTransfers,                   \* transfers pending at the server
    actions,                            \* handleTransferAction calls in progress
    docScreen,                          \* which documents screen is open
    serverDocs,                         \* status of each document at the server
    allDocuments,                       \* the documents on screen, in order
    currentDocIndex, loading, updating, \* useState of the documents screen
    refreshing, error,
    fetches,                            \* fetchDocuments calls of mount/refresh
    op,                                 \* the update operation in progress
    alert,                              \* the Alert on screen
    primaryNumber, newPassword,         \* useState of AdminPanel
    userDetails, isLoading, isResetting,
    successMessage, errorMessage,
    resetCall                           \* the resetUserPassword request in flight

vars == << width, height, scale, savedScale, translateX, translateY,
           savedTranslateX, savedTranslateY, pinchActive, panActive, last,
           impl, token, calls,
           cars, updatingStatus, serverCars, toggles,
           transfers, pendingTransfers, actions,
           docScreen, serverDocs, allDocuments, currentDocIndex, loading,
           updating, refreshing, error, fetches, op, alert,
           primaryNumber, newPassword, userDetails, isLoading, isResetting,
           successMessage, errorMessage, resetCall >>

apiVars == << impl, token, calls >>

carsVars == << cars, updatingStatus, serverCars, toggles >>

transfersVars == << transfers, pendingTransfers, actions >>

docsVars == << docScreen, serverDocs, allDocuments, currentDocIndex, loading,
               updating, refreshing, error, fetches, op, alert >>

passwordVars == << primaryNumber, newPassword, userDetails, isLoading,
                   isResetting, successMessage, errorMessage, resetCall >>

\* Everything that is not state of the ZoomableImage instance.
notZoom == << apiVars, carsVars, transfersVars, docsVars, passwordVars >>

shared == << scale, savedScale, translateX, translateY,
             savedTranslateX, savedTranslateY >>

props == << width, height >>

----------------------------------------------------------------------------
\* Pure helpers

Min2(a, b) == IF a <= b THEN a ELSE b

Max2(a, b) == IF a >= b THEN a ELSE b

\* clamp(value, min, max) = Math.min(max, Math.max(min, value))
clamp(value, min, max) == Min2(max, Max2(min, value))

\* Variant of ClampScale that forgets the Math.min(MAX_SCALE, ...) half.
ClampScale_noMax(base, num, den) ==
    IF base * num <= MIN_SCALE * ScaleDen * den THEN MIN_SCALE * ScaleDen
    ELSE (base * num) \div den

\* Math.min(MAX_SCALE, Math.max(MIN_SCALE, base * num/den)) on the scale grid;
\* base is in scale units, the product is the fraction (base*num)/den.
ClampScale(base, num, den) ==
    IF base * num <= MIN_SCALE * ScaleDen * den THEN MIN_SCALE * ScaleDen
    ELSE IF base * num >= MAX_SCALE * ScaleDen * den THEN MAX_SCALE * ScaleDen
    ELSE (base * num) \div den

\* The product base * num/den is exact on the scale grid, or is clamped away.
OnGrid(base, num, den) ==
    \/ base * num <= MIN_SCALE * ScaleDen * den
    \/ base * num >= MAX_SCALE * ScaleDen * den
    \/ (base * num) % den = 0

\* Variant of MaxT that forgets the division by 2.
MaxT_noHalf(dim, s) == 2 * dim * (s - 1 * ScaleDen)

\* (dim * (scale.value - 1)) / 2, in translation units.
MaxT(dim, s) == dim * (s - 1 * ScaleDen)

----------------------------------------------------------------------------
\* ApiService (src/services/api.ts and the copy in
\* src/components/ZoomableImage.tsx).
\*
\* A text is a sequence of atoms: a word, or a single digit of a number, so
\* that String.includes is the search for a contiguous subsequence.  An
\* AsyncStorage operation takes effect in the step of the code that awaits
\* it; the steps of a call are separated at its network await.

\* Number of makeRequest calls that can be in progress at once.
MaxCalls == 2

CallIds == 1 .. MaxCalls

\* The two copies of the class.
Impls == { "services/api.ts", "components/ZoomableImage.tsx" }

\* AsyncStorage.getItem gives null when the item is absent.
NoToken == "<null>"

Tokens == { "t1", "t2" }

NoHeader == << >>

\* The value of the Authorization header for a token.
Bearer(t) == << "Bearer", t >>

\* Variant of getAuthHeaders without the `if (token)` test.
getAuthHeaders_always(t) == Bearer(t)

\* getAuthHeaders: the Authorization entry of the headers built from the
\* token that getAuthToken read (NoHeader: no such entry).
getAuthHeaders(t) == IF t # NoToken /\ t # "" THEN Bearer(t) ELSE NoHeader

Digit(d) ==
    CASE d = 0 -> "0" [] d = 1 -> "1" [] d = 2 -> "2" [] d = 3 -> "3"
      [] d = 4 -> "4" [] d = 5 -> "5" [] d = 6 -> "6" [] d = 7 -> "7"
      [] d = 8 -> "8" [] d = 9 -> "9"

\* `${response.status}` of a three-digit status.
Digits(n) == << Digit(n \div 100), Digit((n \div 10) % 10), Digit(n % 10) >>

\* String.toLowerCase on the atoms that occur.
Lower(a) ==
    CASE a = "Not" -> "not"
      [] a = "Unauthorized" -> "unauthorized"
      [] a = "Could" -> "could"
      [] a = "Account" -> "account"
      [] a = "Transfer" -> "transfer"
      [] a = "Internal" -> "internal"
      [] a = "Server" -> "server"
      [] a = "Error" -> "error"
      [] a = "HTTP" -> "http"
      [] a = "Network" -> "network"
      [] a = "JSON" -> "json"
      [] a = "Parse" -> "parse"
      [] a = "Unexpected" -> "unexpected"
      [] a = "Field" -> "field"
      [] OTHER -> a

toLowerCase(t) == [ i \in DOMAIN t |-> Lower(t[i]) ]

\* String.includes
includes(t, needle) ==
    \E i \in 1 .. (Len(t) - Len(needle) + 1) :
        SubSeq(t, i, i + Len(needle) - 1) = needle

\* The responses the server (or the network) gives to a fetch.
\*   kind: "network"     fetch rejects
\*         "json"        2xx with a JSON body (access_token: its field)
\*         "html"        2xx whose body is not JSON, response.json() throws
\*         "empty", "text", "string", "message", "detail", "detailArray",
\*         "error", "other"   the shape of the body of an error response
Response(status, kind, text, access_token) ==
    [ status |-> status, kind |-> kind, text |-> text,
      access_token |-> access_token ]

Responses ==
    { Response(200, "json", << >>, "t1"),
      Response(200, "json", << >>, "t2"),
      Response(200, "json", << >>, ""),
      Response(200, "html", << "<", "html", ">" >>, ""),
      Response(0, "network", << >>, ""),
      Response(401, "detail", << "Not", "authenticated" >>, ""),
      Response(401, "detail", << "Could", "not", "validate", "credentials" >>, ""),
      Response(401, "string", << >>, ""),
      Response(403, "empty", << >>, ""),
      Response(403, "message", << "Forbidden" >>, ""),
      Response(404, "detail", << "Account", "not", "found" >>, ""),
      Response(404, "detail", << "Transfer", "4", "0", "1", "2", "not", "found" >>, ""),
      Response(422, "detailArray", << "Field", "required" >>, ""),
      Response(500, "text", << "Internal", "Server", "Error" >>, "") }

\* `HTTP error! status: ${response.status}`
DefaultMessage(r) == << "HTTP", "error!", "status:" >> \o Digits(r.status)

\* errorMessage of src/services/api.ts:
\*   errorJson.message || errorJson.detail || errorMessage, and
\*   errorText || errorMessage when the body is not JSON.
ErrorMessageApiTs(r) ==
    CASE r.kind \in { "message", "detail" } ->
             (IF r.text # << >> THEN r.text ELSE DefaultMessage(r))
      [] r.kind = "detailArray" -> << "[object", "Object]" >>
      [] r.kind = "text" -> r.text
      [] OTHER -> DefaultMessage(r)

\* errorMessage of the copy in src/components/ZoomableImage.tsx.
ErrorMessageCopy(r) ==
    CASE r.kind = "string" -> r.text
      [] r.kind \in { "message", "detail", "error" } ->
             (IF r.text # << >> THEN r.text ELSE << "{", "}" >>)
      [] r.kind = "detailArray" -> r.text
      [] r.kind = "other" -> r.text
      [] r.kind = "text" -> r.text
      [] OTHER -> DefaultMessage(r)

\* Whether makeRequest throws on the response.
Throws(r) == r.kind # "json"

\* The message of the error that reaches the catch block of makeRequest:
\* the TypeError of a fetch that failed, the SyntaxError of response.json()
\* on a body that starts with '<' (the engines word it "Unexpected token" or
\* "Unrecognized token"), or the Error thrown with errorMessage.
ThrownMessage(i, r) ==
    CASE r.kind = "network" -> << "Network", "request", "failed" >>
      [] r.kind = "html" ->
             << "JSON", "Parse", "error:", "Unexpected", "token", "<" >>
      [] OTHER -> IF i = "services/api.ts" THEN ErrorMessageApiTs(r)
                  ELSE ErrorMessageCopy(r)

\* The texts the copy takes for an authentication error.
AuthNeedles ==
    { << "not", "authenticated" >>, << "unauthorized" >>,
      << "4", "0", "1" >>, << "4", "0", "3" >>, << "token" >> }

\* Variant of ShouldLogout that ignores skipLogoutOnError.
ShouldLogout_ignoreSkip(i, skipLogoutOnError, message) ==
    IF i = "services/api.ts" THEN TRUE
    ELSE \E n \in AuthNeedles : includes(toLowerCase(message), n)

\* The catch block of makeRequest: whether this.logout() is called.
ShouldLogout(i, skipLogoutOnError, message) ==
    IF i = "services/api.ts" THEN ~skipLogoutOnError
    ELSE /\ ~skipLogoutOnError
         /\ \E n \in AuthNeedles : includes(toLowerCase(message), n)

\* A call slot: pc is where the call stands, kind what was called, auth the
\* Authorization header in `headers`, wire the one in the fetch that was
\* issued, status the status of the response.
IdleCall ==
    [ pc |-> "idle", kind |-> "none", auth |-> NoHeader, wire |-> NoHeader,
      status |-> 0 ]

ApiParked ==
    /\ impl = "services/api.ts"
    /\ token = NoToken
    /\ calls = [ c \in CallIds |-> IdleCall ]

----------------------------------------------------------------------------
\* CarsScreen (handleToggleStatus) and TransfersScreen (handleTransferAction).

\* Number of cars the server lists.
MaxCars == 2

CarIds == 1 .. MaxCars

CarStatuses == { "ONLINE", "BLOCKED" }

\* useState<CarItem[]>([]): the list before the first fetch.
NoCars == [ c \in {} |-> "ONLINE" ]

\* A handleToggleStatus call that is not running.
IdleToggle ==
    [ pc |-> "idle", cars |-> NoCars, car_status |-> "ONLINE",
      newStatus |-> "ONLINE" ]

CarsParked ==
    /\ cars = NoCars
    /\ updatingStatus = {}
    /\ serverCars = [ c \in CarIds |-> "ONLINE" ]
    /\ toggles = [ c \in CarIds |-> IdleToggle ]

\* Number of transfer requests the server holds.
MaxTransfers == 3

TransferIds == 1 .. MaxTransfers

\* A handleTransferAction call that is not running.
IdleAction == [ pc |-> "idle", transfers |-> {} ]

TransfersParked ==
    /\ transfers = {}
    /\ pendingTransfers = {}
    /\ actions = [ t \in TransferIds |-> IdleAction ]

----------------------------------------------------------------------------
\* The documents screens (AccountDocumentsScreen, CarDocumentsScreen) and the
\* password screen (AdminPanel).

\* Number of documents the server holds for the account: document 1 is an
\* account document, the others are car documents.
MaxDocs == 3

DocIds == 1 .. MaxDocs

DocStatuses == { "PENDING", "VERIFIED", "INVALID" }

DocScreens == { "AccountDocumentsScreen", "CarDocumentsScreen" }

\* An update operation (updateDocumentStatus or Verify All) that is not
\* running.  docsToVerify is the list the operation walks, sent the
\* document_ids it has issued an update for, in order, acked the number of
\* those the server has answered with success.
IdleOp ==
    [ kind |-> "none", pc |-> "idle", docsToVerify |-> << >>,
      status |-> "VERIFIED", sent |-> << >>, acked |-> 0, failed |-> FALSE ]

DocsParked ==
    /\ docScreen = "AccountDocumentsScreen"
    /\ serverDocs = [ d \in DocIds |-> "VERIFIED" ]
    /\ allDocuments = << >>
    /\ currentDocIndex = 0
    /\ loading = TRUE
    /\ updating = FALSE
    /\ refreshing = FALSE
    /\ error = "<null>"
    /\ fetches = 0
    /\ op = IdleOp
    /\ alert = "none"

\* Longest text typed into the password field.
MaxPwLen == 6

\* A resetUserPassword request that is not in flight.
NoReset == [ pc |-> "idle", id |-> "<null>", password |-> << >> ]

PasswordParked ==
    /\ primaryNumber = << >>
    /\ newPassword = << >>
    /\ userDetails = "<null>"
    /\ isLoading = FALSE
    /\ isResetting = FALSE
    /\ successMessage = ""
    /\ errorMessage = ""
    /\ resetCall = NoReset

----------------------------------------------------------------------------
Init ==
    /\ ApiParked
    /\ CarsParked
    /\ TransfersParked
    /\ DocsParked
    /\ PasswordParked
    /\ \E sz \in Sizes : width = sz[1] /\ height = sz[2]
    /\ scale = 1 * ScaleDen
    /\ savedScale = 1 * ScaleDen
    /\ translateX = 0
    /\ translateY = 0
    /\ savedTranslateX = 0
    /\ savedTranslateY = 0
    /\ pinchActive = FALSE
    /\ panActive = FALSE
    /\ last = "mount"

\* The pinch recognizer activates: no callback of the component runs.
PinchStart ==
    /\ ~pinchActive
    /\ pinchActive' = TRUE
    /\ last' = "pinchStart"
    /\ UNCHANGED << notZoom, props, shared, panActive >>

\* Variant of the pinch update that leaves the translation alone.
PinchUpdate_noReclamp(num, den) ==
    /\ pinchActive
    /\ OnGrid(savedScale, num, den)
    /\ scale' = ClampScale(savedScale, num, den)
    /\ last' = "pinchUpdate"
    /\ UNCHANGED << notZoom, props, savedScale, translateX, translateY,
                    savedTranslateX, savedTranslateY, pinchActive, panActive >>

\* Variant of the pinch update that multiplies the current scale, not the
\* committed one.
PinchUpdate_drift(num, den) ==
    /\ pinchActive
    /\ OnGrid(scale, num, den)
    /\ LET newScale == ClampScale(scale, num, den)
           maxTx == MaxT(width, newScale)
           maxTy == MaxT(height, newScale)
       IN  /\ scale' = newScale
           /\ translateX' = clamp(translateX, -maxTx, maxTx)
           /\ translateY' = clamp(translateY, -maxTy, maxTy)
    /\ last' = "pinchUpdate"
    /\ UNCHANGED << notZoom, props, savedScale, savedTranslateX, savedTranslateY,
                    pinchActive, panActive >>

\* Variant of the pinch update that re-clamps the committed translation, not
\* the current one.
PinchUpdate_restore(num, den) ==
    /\ pinchActive
    /\ OnGrid(savedScale, num, den)
    /\ LET newScale == ClampScale(savedScale, num, den)
           maxTx == MaxT(width, newScale)
           maxTy == MaxT(height, newScale)
       IN  /\ scale' = newScale
           /\ translateX' = clamp(savedTranslateX, -maxTx, maxTx)
           /\ translateY' = clamp(savedTranslateY, -maxTy, maxTy)
    /\ last' = "pinchUpdate"
    /\ UNCHANGED << notZoom, props, savedScale, savedTranslateX, savedTranslateY,
                    pinchActive, panActive >>

PinchUpdate(num, den) ==
    /\ pinchActive
    /\ OnGrid(savedScale, num, den)
    /\ LET newScale == ClampScale(savedScale, num, den)
           maxTx == MaxT(width, newScale)
           maxTy == MaxT(height, newScale)
       IN  /\ scale' = newScale
           /\ translateX' = clamp(translateX, -maxTx, maxTx)
           /\ translateY' = clamp(translateY, -maxTy, maxTy)
    /\ last' = "pinchUpdate"
    /\ UNCHANGED << notZoom, props, savedScale, savedTranslateX, savedTranslateY,
                    pinchActive, panActive >>

\* Variant of the pinch end that also resets the zoom on release.
PinchEnd_reset ==
    /\ pinchActive
    /\ scale' = 1 * ScaleDen
    /\ savedScale' = 1 * ScaleDen
    /\ translateX' = 0
    /\ translateY' = 0
    /\ savedTranslateX' = 0
    /\ savedTranslateY' = 0
    /\ pinchActive' = FALSE
    /\ last' = "pinchEnd"
    /\ UNCHANGED << notZoom, props, panActive >>

\* Variant of the pinch end that commits the scale only.
PinchEnd_noCommitT ==
    /\ pinchActive
    /\ savedScale' = scale
    /\ LET maxTx == MaxT(width, scale)
           maxTy == MaxT(height, scale)
       IN  /\ translateX' = clamp(translateX, -maxTx, maxTx)
           /\ translateY' = clamp(translateY, -maxTy, maxTy)
    /\ pinchActive' = FALSE
    /\ last' = "pinchEnd"
    /\ UNCHANGED << notZoom, props, scale, savedTranslateX, savedTranslateY, panActive >>

PinchEnd ==
    /\ pinchActive
    /\ savedScale' = scale
    /\ LET maxTx == MaxT(width, scale)
           maxTy == MaxT(height, scale)
       IN  /\ translateX' = clamp(translateX, -maxTx, maxTx)
           /\ translateY' = clamp(translateY, -maxTy, maxTy)
    /\ savedTranslateX' = translateX'
    /\ savedTranslateY' = translateY'
    /\ pinchActive' = FALSE
    /\ last' = "pinchEnd"
    /\ UNCHANGED << notZoom, props, scale, panActive >>

\* Variant of the pan start for an exclusive composition: a pan cannot
\* activate while a pinch is active.
PanStart_exclusive ==
    /\ ~panActive
    /\ ~pinchActive
    /\ panActive' = TRUE
    /\ last' = "panStart"
    /\ UNCHANGED << notZoom, props, shared, pinchActive >>

PanStart ==
    /\ ~panActive
    /\ panActive' = TRUE
    /\ last' = "panStart"
    /\ UNCHANGED << notZoom, props, shared, pinchActive >>

\* Variant of the pan update that takes its bounds from the saved scale.
PanUpdate_savedScale(dx, dy) ==
    /\ panActive
    /\ LET maxTx == MaxT(width, savedScale)
           maxTy == MaxT(height, savedScale)
       IN  /\ translateX' = clamp(savedTranslateX + dx * PxUnits, -maxTx, maxTx)
           /\ translateY' = clamp(savedTranslateY + dy * PxUnits, -maxTy, maxTy)
    /\ last' = "panUpdate"
    /\ UNCHANGED << notZoom, props, scale, savedScale, savedTranslateX, savedTranslateY,
                    pinchActive, panActive >>

\* Variant of the pan update that commits the translation as it goes.
PanUpdate_commit(dx, dy) ==
    /\ panActive
    /\ LET maxTx == MaxT(width, scale)
           maxTy == MaxT(height, scale)
       IN  /\ translateX' = clamp(savedTranslateX + dx * PxUnits, -maxTx, maxTx)
           /\ translateY' = clamp(savedTranslateY + dy * PxUnits, -maxTy, maxTy)
    /\ savedTranslateX' = translateX'
    /\ savedTranslateY' = translateY'
    /\ last' = "panUpdate"
    /\ UNCHANGED << notZoom, props, scale, savedScale, pinchActive, panActive >>

\* Variant of the pan update that adds the delta to the current translation.
PanUpdate_accumulate(dx, dy) ==
    /\ panActive
    /\ LET maxTx == MaxT(width, scale)
           maxTy == MaxT(height, scale)
       IN  /\ translateX' = clamp(translateX + dx * PxUnits, -maxTx, maxTx)
           /\ translateY' = clamp(translateY + dy * PxUnits, -maxTy, maxTy)
    /\ last' = "panUpdate"
    /\ UNCHANGED << notZoom, props, scale, savedScale, savedTranslateX, savedTranslateY,
                    pinchActive, panActive >>

PanUpdate(dx, dy) ==
    /\ panActive
    /\ LET maxTx == MaxT(width, scale)
           maxTy == MaxT(height, scale)
       IN  /\ translateX' = clamp(savedTranslateX + dx * PxUnits, -maxTx, maxTx)
           /\ translateY' = clamp(savedTranslateY + dy * PxUnits, -maxTy, maxTy)
    /\ last' = "panUpdate"
    /\ UNCHANGED << notZoom, props, scale, savedScale, savedTranslateX, savedTranslateY,
                    pinchActive, panActive >>

\* Variant of the pan end that adds the translation to the committed one.
PanEnd_accumulate ==
    /\ panActive
    /\ savedTranslateX' = savedTranslateX + translateX
    /\ savedTranslateY' = savedTranslateY + translateY
    /\ panActive' = FALSE
    /\ last' = "panEnd"
    /\ UNCHANGED << notZoom, props, scale, savedScale, translateX, translateY,
                    pinchActive >>

\* Variant of the pan end that commits the scale as the pinch end does.
PanEnd_commitScale ==
    /\ panActive
    /\ savedScale' = scale
    /\ savedTranslateX' = translateX
    /\ savedTranslateY' = translateY
    /\ panActive' = FALSE
    /\ last' = "panEnd"
    /\ UNCHANGED << notZoom, props, scale, translateX, translateY, pinchActive >>

PanEnd ==
    /\ panActive
    /\ savedTranslateX' = translateX
    /\ savedTranslateY' = translateY
    /\ panActive' = FALSE
    /\ last' = "panEnd"
    /\ UNCHANGED << notZoom, props, scale, savedScale, translateX, translateY,
                    pinchActive >>

\* The platform cancels the pinch: updates stop and, the component having
\* registered onUpdate and onEnd only, none of its callbacks runs.
PinchCancel ==
    /\ pinchActive
    /\ pinchActive' = FALSE
    /\ last' = "pinchCancel"
    /\ UNCHANGED << notZoom, props, shared, panActive >>

\* The platform cancels the pan, likewise.
PanCancel ==
    /\ panActive
    /\ panActive' = FALSE
    /\ last' = "panCancel"
    /\ UNCHANGED << notZoom, props, shared, pinchActive >>

Next ==
    \/ PinchStart
    \/ \E m \in PinchScales : PinchUpdate(m[1], m[2])
    \/ PinchEnd
    \/ PanStart
    \/ \E d \in PanDeltas : PanUpdate(d[1], d[2])
    \/ PanEnd
    \/ PinchCancel
    \/ PanCancel

Spec == Init /\ [][Next]_vars

----------------------------------------------------------------------------
TypeOK ==
    /\ <<width, height>> \in Sizes
    /\ scale \in Int /\ savedScale \in Int
    /\ translateX \in Int /\ translateY \in Int
    /\ savedTranslateX \in Int /\ savedTranslateY \in Int
    /\ pinchActive \in BOOLEAN /\ panActive \in BOOLEAN
    /\ last \in { "mount", "pinchStart", "pinchUpdate", "pinchEnd",
                  "panStart", "panUpdate", "panEnd",
                  "pinchCancel", "panCancel" }

----------------------------------------------------------------------------
\* Rendering (animatedStyle): the image is a width x height box centred in
\* the container; the transform list [translateX, translateY, scale] maps a
\* point p (measured from the centre, in translation units) to
\* t + scale * p, the translation being outside the scaling.

\* Variant of TransformPoint for the list [scale, translateX, translateY]:
\* the translation is scaled too.
TransformPoint_scaleFirst(t, s, p) == (s * (p + t)) \div ScaleDen

TransformPoint(t, s, p) == t + (s * p) \div ScaleDen

\* Half the extent of a box side of dim pixels, in translation units.
HalfExtent(dim) == dim * ScaleDen

ImageLeft   == TransformPoint(translateX, scale, -HalfExtent(width))
ImageRight  == TransformPoint(translateX, scale,  HalfExtent(width))
ImageTop    == TransformPoint(translateY, scale, -HalfExtent(height))
ImageBottom == TransformPoint(translateY, scale,  HalfExtent(height))

----------------------------------------------------------------------------
Abs(x) == IF x < 0 THEN -x ELSE x

\* C1: in every reachable state |translateX| <= W*(scale-1)/2 and
\* |translateY| <= H*(scale-1)/2 for the current scale.
C1_TranslationBounded ==
    /\ Abs(translateX) <= width * (scale - ScaleDen)
    /\ Abs(translateY) <= height * (scale - ScaleDen)

\* A pan update at the bound while a pinch is in progress.
C1_Witness ==
    /\ last = "panUpdate"
    /\ pinchActive
    /\ scale > ScaleDen
    /\ scale # savedScale
    /\ translateX = width * (scale - ScaleDen)

\* C2: in every reachable state the rendered image box covers the whole
\* W x H container on both axes.
C2_ImageCoversContainer ==
    /\ ImageLeft <= -HalfExtent(width)
    /\ ImageRight >= HalfExtent(width)
    /\ ImageTop <= -HalfExtent(height)
    /\ ImageBottom >= HalfExtent(height)

\* Zoomed in and panned until the image's left edge sits on the container's.
C2_Witness ==
    /\ scale > ScaleDen
    /\ translateX > 0
    /\ ImageLeft = -HalfExtent(width)
    /\ ImageRight > HalfExtent(width)

\* C3: in every reachable state 1 <= scale <= 4 and 1 <= savedScale <= 4.
C3_ScaleInRange ==
    /\ MIN_SCALE * ScaleDen <= scale /\ scale <= MAX_SCALE * ScaleDen
    /\ MIN_SCALE * ScaleDen <= savedScale /\ savedScale <= MAX_SCALE * ScaleDen

\* A pinch update on a committed scale of 4 that stays at 4: every
\* multiplier that does so would take the product above 4.
C3_Witness ==
    /\ last = "pinchUpdate"
    /\ savedScale = MAX_SCALE * ScaleDen
    /\ scale = MAX_SCALE * ScaleDen

\* C4: a pinch update with multiplier m sets scale = clamp(savedScale*m, 1, 4)
\* and leaves savedScale unchanged.
C4_PinchUpdateScale ==
    [][\A m \in PinchScales :
         PinchUpdate(m[1], m[2]) =>
           /\ savedScale' = savedScale
           /\ scale' * m[2] =
                Min2(MAX_SCALE * ScaleDen * m[2],
                     Max2(MIN_SCALE * ScaleDen * m[2], savedScale * m[1]))]_vars

\* A pinch update whose result is strictly inside (1, 4) and differs from
\* the committed base and from what the base times any other step would be.
C4_Witness ==
    /\ last = "pinchUpdate"
    /\ pinchActive
    /\ savedScale > MIN_SCALE * ScaleDen
    /\ 2 * scale = 3 * savedScale
    /\ scale < MAX_SCALE * ScaleDen

\* C5: a pinch update re-clamps the translation to the bounds of the new
\* scale in the same step; a translation inside the new bounds is unchanged.
C5_PinchUpdateReclamps ==
    [][\A m \in PinchScales :
         PinchUpdate(m[1], m[2]) =>
           LET bx == width * (scale' - ScaleDen)
               by == height * (scale' - ScaleDen)
           IN  /\ translateX' = (IF translateX > bx THEN bx
                                 ELSE IF translateX < -bx THEN -bx
                                 ELSE translateX)
               /\ translateY' = (IF translateY > by THEN by
                                 ELSE IF translateY < -by THEN -by
                                 ELSE translateY)]_vars

\* A zoom-out pulled the translation inward to the new, non-zero bound.
C5_Witness ==
    /\ last = "pinchUpdate"
    /\ scale < savedScale
    /\ scale > ScaleDen
    /\ translateX = width * (scale - ScaleDen)
    /\ savedTranslateX > translateX

\* C6: whenever scale = 1, translateX = 0 and translateY = 0.
C6_NoPanAtScaleOne ==
    scale = 1 * ScaleDen => translateX = 0 /\ translateY = 0

\* A pan update at scale 1 whose base translation is not zero.
C6_Witness ==
    /\ last = "panUpdate"
    /\ scale = 1 * ScaleDen
    /\ savedScale > ScaleDen
    /\ savedTranslateX # 0
    /\ translateX = 0

\* C7: a pan update with delta (dx, dy) sets the translation to
\* clamp(saved + delta) under the bounds of the current scale and leaves
\* scale, savedScale and the saved translation unchanged.
C7_PanUpdateTranslation ==
    [][\A d \in PanDeltas :
         PanUpdate(d[1], d[2]) =>
           LET bx == width * (scale - ScaleDen)
               by == height * (scale - ScaleDen)
               cx == savedTranslateX + d[1] * PxUnits
               cy == savedTranslateY + d[2] * PxUnits
           IN  /\ translateX' = (IF cx > bx THEN bx
                                 ELSE IF cx < -bx THEN -bx ELSE cx)
               /\ translateY' = (IF cy > by THEN by
                                 ELSE IF cy < -by THEN -by ELSE cy)
               /\ scale' = scale
               /\ savedScale' = savedScale
               /\ savedTranslateX' = savedTranslateX
               /\ savedTranslateY' = savedTranslateY]_vars

\* A pan update during a pinch, at a scale that differs from the saved one,
\* that moved the image to a place the saved scale would not allow.
C7_Witness ==
    /\ last = "panUpdate"
    /\ pinchActive
    /\ scale > savedScale
    /\ translateX > width * (savedScale - ScaleDen)
    /\ translateX # savedTranslateX

\* C8: a pinch end sets savedScale = scale, re-clamps the translation to the
\* bounds of that scale, commits it, and leaves scale unchanged.
C8_PinchEndCommits ==
    [][PinchEnd =>
         /\ scale' = scale
         /\ savedScale' = scale
         /\ Abs(translateX') <= width * (scale - ScaleDen)
         /\ Abs(translateY') <= height * (scale - ScaleDen)
         /\ Abs(translateX) <= width * (scale - ScaleDen)
              => translateX' = translateX
         /\ Abs(translateY) <= height * (scale - ScaleDen)
              => translateY' = translateY
         /\ savedTranslateX' = translateX'
         /\ savedTranslateY' = translateY']_vars

\* A pinch end that committed a zoomed, panned transform.
C8_Witness ==
    /\ last = "pinchEnd"
    /\ ~pinchActive
    /\ scale > ScaleDen
    /\ savedScale = scale
    /\ translateX # 0
    /\ savedTranslateX = translateX
    /\ savedTranslateY = translateY

\* C9: a pan end commits the translation and changes nothing else, and the
\* translation moves only in a pinch update or a pan update.
C9_PanEndFrame ==
    [][/\ PanEnd =>
            /\ savedTranslateX' = translateX
            /\ savedTranslateY' = translateY
            /\ UNCHANGED << translateX, translateY, scale, savedScale >>
       /\ << translateX, translateY >>' # << translateX, translateY >> =>
            \/ \E m \in PinchScales : PinchUpdate(m[1], m[2])
            \/ \E d \in PanDeltas : PanUpdate(d[1], d[2])]_vars

\* A pan end during a pinch: the translation is committed, the scale is not.
C9_Witness ==
    /\ last = "panEnd"
    /\ ~panActive
    /\ pinchActive
    /\ scale # savedScale
    /\ translateX # 0
    /\ savedTranslateX = translateX
    /\ savedTranslateY = translateY

\* C10: the scenario with W=300, H=400: pinch m=2 gives scale 2 (maxTx=150,
\* maxTy=200); pan (300,0) gives translateX=150, translateY=0; ending the
\* gestures, in either order, gives saved (2, 150, 0); a pinch update with
\* m=0.5 then gives scale 1 and translateX = translateY = 0.
C10_Mounted ==
    /\ width = 300 /\ height = 400
    /\ scale = 1 * ScaleDen /\ savedScale = 1 * ScaleDen
    /\ translateX = 0 /\ translateY = 0
    /\ savedTranslateX = 0 /\ savedTranslateY = 0

C10_Zoomed ==
    /\ width = 300 /\ height = 400
    /\ scale = 2 * ScaleDen /\ savedScale = 1 * ScaleDen
    /\ translateX = 0 /\ translateY = 0
    /\ savedTranslateX = 0 /\ savedTranslateY = 0

C10_Panned ==
    /\ width = 300 /\ height = 400
    /\ scale = 2 * ScaleDen
    /\ translateX = 150 * PxUnits /\ translateY = 0

C10_Committed ==
    /\ C10_Panned
    /\ savedScale = 2 * ScaleDen
    /\ savedTranslateX = 150 * PxUnits /\ savedTranslateY = 0

C10_Scenario ==
    [][/\ C10_Mounted /\ PinchUpdate(2, 1) =>
            /\ C10_Zoomed'
            /\ width * (scale' - ScaleDen) = 2 * 150 * ScaleDen
            /\ height * (scale' - ScaleDen) = 2 * 200 * ScaleDen
       /\ C10_Zoomed /\ PanUpdate(300, 0) =>
            /\ C10_Panned'
            /\ savedScale' = 1 * ScaleDen
            /\ savedTranslateX' = 0 /\ savedTranslateY' = 0
       /\ C10_Panned /\ PinchEnd => C10_Committed'
       /\ C10_Panned /\ PanEnd =>
            /\ C10_Panned'
            /\ savedScale' = savedScale
            /\ savedTranslateX' = 150 * PxUnits /\ savedTranslateY' = 0
       /\ C10_Committed /\ PinchUpdate(1, 2) =>
            /\ scale' = 1 * ScaleDen
            /\ translateX' = 0 /\ translateY' = 0
            /\ savedScale' = 2 * ScaleDen
            /\ savedTranslateX' = 150 * PxUnits /\ savedTranslateY' = 0]_vars

\* The end of the scenario: both gestures ended with (2, 150, 0) committed,
\* then a pinch alone brought the scale to 1 and the translation to (0, 0).
C10_Witness ==
    /\ width = 300 /\ height = 400
    /\ last = "pinchUpdate"
    /\ ~panActive
    /\ scale = 1 * ScaleDen
    /\ translateX = 0 /\ translateY = 0
    /\ savedScale = 2 * ScaleDen
    /\ savedTranslateX = 150 * PxUnits /\ savedTranslateY = 0

----------------------------------------------------------------------------
\* A step in which an update callback runs.
UpdateStep ==
    \/ \E m \in PinchScales : PinchUpdate(m[1], m[2])
    \/ \E d \in PanDeltas : PanUpdate(d[1], d[2])

\* What a pinch end leaves behind: everything committed.
PinchCommitted ==
    /\ savedScale = scale
    /\ savedTranslateX = translateX
    /\ savedTranslateY = translateY

\* What a pan end leaves behind: the translation committed.
PanCommitted ==
    /\ savedTranslateX = translateX
    /\ savedTranslateY = translateY

\* C11: once a gesture has ended, the saved and the rendered values stay as
\* they are until an update arrives, and an end handler that runs again with
\* no update in between changes nothing.
C11_EndIdempotent ==
    [][/\ PinchEnd => PinchCommitted'
       /\ PanEnd => PanCommitted'
       /\ PinchCommitted /\ ~UpdateStep => UNCHANGED shared
       /\ PanCommitted /\ ~UpdateStep /\ ~PinchEnd =>
            UNCHANGED shared
       /\ PanCommitted /\ PanEnd => UNCHANGED shared]_vars

\* A pan ended on a zoomed, panned and fully committed transform.
C11_Witness ==
    /\ last = "panEnd"
    /\ ~pinchActive /\ ~panActive
    /\ PinchCommitted
    /\ scale > ScaleDen
    /\ translateY # 0

\* C12: only pinch end and pan end write the saved values; a gesture that is
\* cancelled leaves them as the last end handler committed them.
C12_SavedWrittenByEndOnly ==
    [][/\ savedScale' # savedScale => PinchEnd
       /\ << savedTranslateX, savedTranslateY >>'
            # << savedTranslateX, savedTranslateY >> => PinchEnd \/ PanEnd
       /\ PinchCancel \/ PanCancel => UNCHANGED shared]_vars

\* A pan that moved the image was cancelled: the saved translation is still
\* the committed one, not the one on screen.
C12_Witness ==
    /\ last = "panCancel"
    /\ ~panActive
    /\ translateX # savedTranslateX

\* C13: the two latches are independent: whatever the other latch, an idle
\* gesture can start and an active one can update and end, and no step of one
\* gesture changes the latch of the other.
C13_LatchesIndependent ==
    /\ [](/\ ~panActive => ENABLED PanStart
          /\ panActive => ENABLED PanEnd /\ ENABLED PanUpdate(0, 0)
          /\ ~pinchActive => ENABLED PinchStart
          /\ pinchActive => ENABLED PinchEnd /\ ENABLED PinchUpdate(1, 100))
    /\ [][/\ last' \in { "pinchStart", "pinchUpdate", "pinchEnd",
                         "pinchCancel" } => panActive' = panActive
          /\ last' \in { "panStart", "panUpdate", "panEnd",
                         "panCancel" } => pinchActive' = pinchActive
          /\ pinchActive' # pinchActive =>
                PinchStart \/ PinchEnd \/ PinchCancel
          /\ panActive' # panActive =>
                PanStart \/ PanEnd \/ PanCancel]_vars

\* A pan started while a pinch was in progress.
C13_Witness ==
    /\ last = "panStart"
    /\ pinchActive /\ panActive
    /\ scale # savedScale

\* The state the hooks of a fresh instance hold.
MountState ==
    /\ scale = 1 * ScaleDen /\ savedScale = 1 * ScaleDen
    /\ translateX = 0 /\ translateY = 0
    /\ savedTranslateX = 0 /\ savedTranslateY = 0

\* C14: the instance mounts with scale = savedScale = 1 and all translations
\* 0, and no step resets the transform: scale returns to 1 only by a pinch
\* update whose product is at most 1, savedScale only by a pinch end at
\* scale 1, and starting, cancelling or ending a gesture never changes the
\* rendered values.
C14_MountAndNoReset ==
    /\ MountState
    /\ [][/\ scale' = 1 * ScaleDen /\ scale # 1 * ScaleDen =>
               \E m \in PinchScales :
                  /\ PinchUpdate(m[1], m[2])
                  /\ savedScale * m[1] <= MIN_SCALE * ScaleDen * m[2]
          /\ savedScale' = 1 * ScaleDen /\ savedScale # 1 * ScaleDen =>
               PinchEnd /\ scale = 1 * ScaleDen
          /\ << scale, translateX, translateY >>'
               # << scale, translateX, translateY >> => UpdateStep]_vars

\* Every gesture has ended and the transform is still zoomed and panned.
C14_Witness ==
    /\ last = "pinchEnd"
    /\ ~pinchActive /\ ~panActive
    /\ scale = MAX_SCALE * ScaleDen
    /\ translateX # 0

----------------------------------------------------------------------------
\* ApiService: the steps of a call through makeRequest.

ZoomParked ==
    /\ width = 300 /\ height = 400
    /\ scale = 1 * ScaleDen /\ savedScale = 1 * ScaleDen
    /\ translateX = 0 /\ translateY = 0
    /\ savedTranslateX = 0 /\ savedTranslateY = 0
    /\ pinchActive = FALSE /\ panActive = FALSE
    /\ last = "mount"

zoomVars == << props, shared, pinchActive, panActive, last >>

\* Everything that is not state of the ApiService.
notApi == << zoomVars, carsVars, transfersVars, docsVars, passwordVars >>

\* The app starts with the token of an earlier session, or none.
InitApi ==
    /\ ZoomParked
    /\ DocsParked
    /\ PasswordParked
    /\ CarsParked
    /\ TransfersParked
    /\ impl \in Impls
    /\ token \in Tokens \cup { NoToken }
    /\ calls = [ c \in CallIds |-> IdleCall ]

\* makeRequest up to `const headers = await this.getAuthHeaders()`;
\* k = "login" is the call made by login, with skipLogoutOnError = true.
BuildHeaders(c, k) ==
    /\ calls[c].pc = "idle"
    /\ calls' = [ calls EXCEPT ![c] =
                    [ pc |-> "built", kind |-> k,
                      auth |-> getAuthHeaders(token), wire |-> NoHeader,
                      status |-> 0 ] ]
    /\ UNCHANGED << notApi, impl, token >>

\* config = { ...options, headers: { ...headers, ...options.headers } } and
\* fetch(url, config); no caller passes an Authorization header in options.
Fetch(c) ==
    /\ calls[c].pc = "built"
    /\ calls' = [ calls EXCEPT ![c].pc = "sent", ![c].wire = calls[c].auth ]
    /\ UNCHANGED << notApi, impl, token >>

\* The rest of makeRequest once fetch has settled with r, and, for a login,
\* the rest of login.
Settle(c, r) ==
    /\ calls[c].pc = "sent"
    /\ IF Throws(r)
       THEN /\ token' = (IF ShouldLogout(impl, calls[c].kind = "login",
                                         ThrownMessage(impl, r))
                         THEN NoToken ELSE token)
            /\ calls' = [ calls EXCEPT ![c] =
                            [ pc |-> "rejected", kind |-> calls[c].kind,
                              auth |-> NoHeader, wire |-> NoHeader,
                              status |-> r.status ] ]
       ELSE /\ token' = (IF calls[c].kind = "login" /\ r.access_token # ""
                         THEN r.access_token ELSE token)
            /\ calls' = [ calls EXCEPT ![c] =
                            [ pc |-> "resolved", kind |-> calls[c].kind,
                              auth |-> NoHeader, wire |-> NoHeader,
                              status |-> r.status ] ]
    /\ UNCHANGED << notApi, impl >>

\* The caller has taken the result or the error of the call.
Return(c) ==
    /\ calls[c].pc \in { "resolved", "rejected" }
    /\ calls' = [ calls EXCEPT ![c] = IdleCall ]
    /\ UNCHANGED << notApi, impl, token >>

\* apiService.logout() called by the app.
Logout ==
    /\ token # NoToken
    /\ token' = NoToken
    /\ UNCHANGED << notApi, impl, calls >>

NextApi ==
    \/ \E c \in CallIds, k \in { "request", "login" } : BuildHeaders(c, k)
    \/ \E c \in CallIds : Fetch(c)
    \/ \E c \in CallIds, r \in Responses : Settle(c, r)
    \/ \E c \in CallIds : Return(c)
    \/ Logout

SpecApi == InitApi /\ [][NextApi]_vars

TypeOKApi ==
    /\ impl \in Impls
    /\ token \in Tokens \cup { NoToken }
    /\ \A c \in CallIds :
         /\ calls[c].pc \in { "idle", "built", "sent", "resolved", "rejected" }
         /\ calls[c].kind \in { "none", "request", "login" }
         /\ calls[c].auth \in { NoHeader } \cup { Bearer(t) : t \in Tokens }
         /\ calls[c].wire \in { NoHeader } \cup { Bearer(t) : t \in Tokens }

\* C15: a request other than login that fails with HTTP 401 or 403, whatever
\* the body of the response, removes the stored token.
C15_AuthErrorClearsSession ==
    [][\A c \in CallIds, r \in Responses :
         ( /\ calls[c].pc = "sent"
           /\ calls[c].kind = "request"
           /\ r.status \in { 401, 403 }
           /\ Settle(c, r) ) => token' = NoToken]_vars

\* C16: the fetch of a call carries Authorization: Bearer t exactly when the
\* storage held the non-empty token t when the headers were built, and no
\* Authorization header when it held none.
C16_BearerFromStoredToken ==
    [][/\ \A c \in CallIds, k \in { "request", "login" } :
            calls[c].pc = "idle" /\ BuildHeaders(c, k) =>
              /\ token # NoToken => calls'[c].auth = << "Bearer", token >>
              /\ token = NoToken => calls'[c].auth = << >>
       /\ \A c \in CallIds :
            calls[c].pc = "built" /\ Fetch(c) =>
              calls'[c].wire = calls[c].auth]_vars

\* A fetch in flight carries the token that was stored when its headers were
\* built, while the storage has since been emptied.
C16_Witness ==
    \E c \in CallIds :
        /\ calls[c].pc = "sent"
        /\ calls[c].wire = << "Bearer", "t1" >>
        /\ token = NoToken

\* C17: a request other than login that fails with an error that is not an
\* authentication error (a status other than 401 and 403, a body that is not
\* JSON, a network failure) leaves the stored token in place.
C17_OtherErrorsKeepSession ==
    [][\A c \in CallIds, r \in Responses :
         ( /\ calls[c].pc = "sent"
           /\ calls[c].kind = "request"
           /\ Throws(r)
           /\ r.status \notin { 401, 403 }
           /\ Settle(c, r) ) => token' = token]_vars

\* C18: a login that fails leaves the stored token as it is; a login that
\* succeeds stores the access_token of the response when it is not empty,
\* and leaves the token as it is otherwise.
C18_LoginStoresToken ==
    [][\A c \in CallIds, r \in Responses :
         ( /\ calls[c].pc = "sent"
           /\ calls[c].kind = "login"
           /\ Settle(c, r) ) =>
           /\ r.kind # "json" => token' = token
           /\ r.kind = "json" /\ r.access_token # "" => token' = r.access_token
           /\ r.kind = "json" /\ r.access_token = "" => token' = token]_vars

\* A login was rejected with 401 and the token of the earlier session is
\* still stored, while another login replaced nothing yet.
C18_Witness ==
    \E c \in CallIds :
        /\ calls[c].kind = "login"
        /\ calls[c].pc = "rejected"
        /\ calls[c].status = 401
        /\ token = "t1"

----------------------------------------------------------------------------
\* CarsScreen.  A handler called from the screen sees the state of the
\* render it was created in: `cars` inside a call of handleToggleStatus is
\* the list that was on screen when the switch was flipped, at every line of
\* the call, and `car` is the item of that list.

notCars == << zoomVars, apiVars, transfersVars, docsVars, passwordVars >>

InitCars ==
    /\ ZoomParked
    /\ DocsParked
    /\ PasswordParked
    /\ ApiParked
    /\ TransfersParked
    /\ cars = NoCars
    /\ updatingStatus = {}
    /\ serverCars \in [ CarIds -> CarStatuses ]
    /\ toggles = [ c \in CarIds |-> IdleToggle ]

\* getTargetStatus
getTargetStatus(toggleValue) == IF toggleValue THEN "ONLINE" ELSE "BLOCKED"

\* isActiveStatus, on the two statuses the screen writes
isActiveStatus(status) == status = "ONLINE"

\* fetchCars called by the mount effect or by pull-to-refresh: getCars
\* answers with the list of the server, or fails and leaves the list.
FetchCars(ok) ==
    /\ cars' = (IF ok THEN serverCars ELSE cars)
    /\ UNCHANGED << notCars, updatingStatus, serverCars, toggles >>

\* The switch of car c is flipped: handleToggleStatus up to its first await.
\* The switch is disabled while c is in updatingStatus and reports the
\* opposite of the value it shows.
HandleToggleStatus(c) ==
    /\ c \in DOMAIN cars
    /\ c \notin updatingStatus
    /\ toggles[c].pc = "idle"
    /\ LET newStatus == getTargetStatus(~isActiveStatus(cars[c]))
       IN  /\ cars' = [ x \in DOMAIN cars |->
                          IF x = c THEN newStatus ELSE cars[x] ]
           /\ toggles' = [ toggles EXCEPT ![c] =
                             [ pc |-> "update", cars |-> cars,
                               car_status |-> cars[c],
                               newStatus |-> newStatus ] ]
    /\ updatingStatus' = updatingStatus \cup { c }
    /\ UNCHANGED << notCars, serverCars >>

\* updateCarAccountStatus succeeded: the call goes on to await fetchCars().
UpdateSucceeds(c) ==
    /\ toggles[c].pc = "update"
    /\ serverCars' = [ serverCars EXCEPT ![c] = toggles[c].newStatus ]
    /\ toggles' = [ toggles EXCEPT ![c].pc = "refresh" ]
    /\ UNCHANGED << notCars, cars, updatingStatus >>

\* updateCarAccountStatus failed: the catch block ("Revert on error") and
\* the finally block.
UpdateFails(c) ==
    /\ toggles[c].pc = "update"
    /\ cars' = [ x \in DOMAIN toggles[c].cars |->
                   IF x = c THEN toggles[c].car_status
                   ELSE toggles[c].cars[x] ]
    /\ updatingStatus' = updatingStatus \ { c }
    /\ toggles' = [ toggles EXCEPT ![c] = IdleToggle ]
    /\ UNCHANGED << notCars, serverCars >>

\* The fetchCars awaited after a successful update has settled, then the
\* finally block.
RefreshDone(c, ok) ==
    /\ toggles[c].pc = "refresh"
    /\ cars' = (IF ok THEN serverCars ELSE cars)
    /\ updatingStatus' = updatingStatus \ { c }
    /\ toggles' = [ toggles EXCEPT ![c] = IdleToggle ]
    /\ UNCHANGED << notCars, serverCars >>

NextCars ==
    \/ \E ok \in BOOLEAN : FetchCars(ok)
    \/ \E c \in CarIds : HandleToggleStatus(c)
    \/ \E c \in CarIds : UpdateSucceeds(c)
    \/ \E c \in CarIds : UpdateFails(c)
    \/ \E c \in CarIds, ok \in BOOLEAN : RefreshDone(c, ok)

SpecCars == InitCars /\ [][NextCars]_vars

\* C19: when the update of car c fails, the entry of c shows the status it
\* had before the switch was flipped and the entry of every other car is
\* what it was showing, whatever other toggles are in flight.
C19_FailedToggleReverts ==
    [][\A c \in CarIds :
         UpdateFails(c) =>
           /\ DOMAIN cars' = DOMAIN cars
           /\ cars'[c] = toggles[c].car_status
           /\ \A x \in DOMAIN cars \ { c } : cars'[x] = cars[x]]_vars

----------------------------------------------------------------------------
\* TransfersScreen.  `transfers` inside the callback that handleTransferAction
\* gives to Alert.prompt is the list that was on screen when the button was
\* pressed.

notTransfers == << zoomVars, apiVars, carsVars, docsVars, passwordVars >>

InitTransfers ==
    /\ ZoomParked
    /\ DocsParked
    /\ PasswordParked
    /\ ApiParked
    /\ CarsParked
    /\ transfers = {}
    /\ pendingTransfers = TransferIds
    /\ actions = [ t \in TransferIds |-> IdleAction ]

\* fetchTransfers: getPendingTransfers answers with the pending transfers,
\* or fails and leaves the list.
FetchTransfers(ok) ==
    /\ transfers' = (IF ok THEN pendingTransfers ELSE transfers)
    /\ UNCHANGED << notTransfers, pendingTransfers, actions >>

\* Approve or Reject is pressed on transfer t: Alert.prompt is shown.  The
\* prompt is modal: no button of the list can be pressed while one is up.
HandleTransferAction(t) ==
    /\ t \in transfers
    /\ actions[t].pc = "idle"
    /\ \A u \in TransferIds : actions[u].pc # "prompt"
    /\ actions' = [ actions EXCEPT ![t] =
                      [ pc |-> "prompt", transfers |-> transfers ] ]
    /\ UNCHANGED << notTransfers, transfers, pendingTransfers >>

\* The prompt is dismissed with Cancel: the callback does not run.
PromptCancelled(t) ==
    /\ actions[t].pc = "prompt"
    /\ actions' = [ actions EXCEPT ![t] = IdleAction ]
    /\ UNCHANGED << notTransfers, transfers, pendingTransfers >>

\* The prompt is confirmed: the callback runs up to `await processTransfer`.
PromptSubmitted(t) ==
    /\ actions[t].pc = "prompt"
    /\ actions' = [ actions EXCEPT ![t].pc = "process" ]
    /\ UNCHANGED << notTransfers, transfers, pendingTransfers >>

\* processTransfer succeeded:
\* setTransfers(transfers.filter(t => t.id !== transfer.id)).
ProcessSucceeds(t) ==
    /\ actions[t].pc = "process"
    /\ pendingTransfers' = pendingTransfers \ { t }
    /\ transfers' = { u \in actions[t].transfers : u # t }
    /\ actions' = [ actions EXCEPT ![t] = IdleAction ]
    /\ UNCHANGED << notTransfers >>

\* processTransfer failed: the catch block shows an alert.
ProcessFails(t) ==
    /\ actions[t].pc = "process"
    /\ actions' = [ actions EXCEPT ![t] = IdleAction ]
    /\ UNCHANGED << notTransfers, transfers, pendingTransfers >>

NextTransfers ==
    \/ \E ok \in BOOLEAN : FetchTransfers(ok)
    \/ \E t \in TransferIds : HandleTransferAction(t)
    \/ \E t \in TransferIds : PromptCancelled(t)
    \/ \E t \in TransferIds : PromptSubmitted(t)
    \/ \E t \in TransferIds : ProcessSucceeds(t)
    \/ \E t \in TransferIds : ProcessFails(t)

SpecTransfers == InitTransfers /\ [][NextTransfers]_vars

\* C20: a transfer whose processTransfer succeeded leaves the list and only
\* fetchTransfers puts a transfer on the list, so that it does not reappear
\* before the next fetch; a failed processTransfer leaves the list as it is.
C20_ProcessedTransferStaysRemoved ==
    [][/\ \A t \in TransferIds : ProcessSucceeds(t) => t \notin transfers'
       /\ \A t \in TransferIds : ProcessFails(t) => transfers' = transfers
       /\ ~(transfers' \subseteq transfers) =>
             \E ok \in BOOLEAN : FetchTransfers(ok)]_vars

----------------------------------------------------------------------------
\* The documents screens.  An Alert is modal: while one is on screen nothing
\* under it can be pressed.  The callbacks an Alert is given were created in
\* the render in which the button was pressed, so docsToVerify inside the
\* 'Verify All' callback is the list of that render.

notDocs == << zoomVars, apiVars, carsVars, transfersVars, passwordVars >>

\* Standalone fetchDocuments calls (mount, pull to refresh, retry) in flight.
MaxFetches == 1

\* car_id of a car document; the car screen is opened with carId.
car_id(d) == IF d % 3 = 1 THEN 2 ELSE 1

carId == 1

\* DocumentItem as the server lists it now.
DocumentItem(d) == [ document_id |-> d, status |-> serverDocs[d] ]

\* data.account_documents and data.car_documents of getAccountDocuments.
account_documents == << DocumentItem(1) >>

car_documents == [ i \in 1 .. (MaxDocs - 1) |-> DocumentItem(i + 1) ]

IsForThisCar(doc) == car_id(doc.document_id) = carId

\* The list a screen shows for a response: allDocs in the account screen,
\* forThisCar in the car screen.
allDocs ==
    IF docScreen = "AccountDocumentsScreen"
    THEN account_documents \o car_documents
    ELSE SelectSeq(car_documents, IsForThisCar)

\* Array.findIndex(doc => doc.status === st) from position i, 0-based, -1 if
\* there is none.
RECURSIVE findIndexFrom(_, _, _)
findIndexFrom(docs, st, i) ==
    IF i > Len(docs) THEN -1
    ELSE IF docs[i].status = st THEN i - 1
    ELSE findIndexFrom(docs, st, i + 1)

findIndex_notVerified(docs, st) ==
    IF \E i \in 1 .. Len(docs) : docs[i].status # "VERIFIED"
    THEN (CHOOSE i \in 1 .. Len(docs) :
              /\ docs[i].status # "VERIFIED"
              /\ \A j \in 1 .. (i - 1) : docs[j].status = "VERIFIED") - 1
    ELSE -1

findIndex(docs, st) == findIndexFrom(docs, st, 1)

\* fetchDocuments after `await apiService.getAccountDocuments(...)`: the try
\* block on success, the catch block on failure, then the finally block.
FetchDocumentsSettles(ok) ==
    /\ IF ok
       THEN /\ allDocuments' = allDocs
            /\ LET firstPendingIndex == findIndex(allDocs, "PENDING")
               IN  currentDocIndex' =
                       IF firstPendingIndex # -1 THEN firstPendingIndex
                       ELSE IF docScreen = "CarDocumentsScreen" THEN 0
                       ELSE currentDocIndex
            /\ UNCHANGED error
       ELSE /\ error' = "Failed to load documents"
            /\ UNCHANGED << allDocuments, currentDocIndex >>
    /\ loading' = FALSE
    /\ refreshing' = FALSE

\* The screen opens: the mount effect has called fetchDocuments.
InitDocs ==
    /\ ZoomParked
    /\ ApiParked
    /\ CarsParked
    /\ TransfersParked
    /\ PasswordParked
    /\ docScreen \in DocScreens
    /\ serverDocs \in [ DocIds -> DocStatuses ]
    /\ allDocuments = << >>
    /\ currentDocIndex = 0
    /\ loading = TRUE
    /\ updating = FALSE
    /\ refreshing = FALSE
    /\ error = "<null>"
    /\ fetches = 1
    /\ op = IdleOp
    /\ alert = "none"

\* The render reaches the document view (not the spinner, the error view or
\* an empty view) and no Alert covers it.
DocumentShown ==
    /\ ~loading
    /\ error = "<null>"
    /\ currentDocIndex < Len(allDocuments)
    /\ alert = "none"

currentDocument == allDocuments[currentDocIndex + 1]

\* onRefresh (pull to refresh): setRefreshing(true), then fetchDocuments up
\* to its await (setError(null)).
OnRefresh ==
    /\ DocumentShown
    /\ ~refreshing
    /\ fetches < MaxFetches
    /\ refreshing' = TRUE
    /\ error' = "<null>"
    /\ fetches' = fetches + 1
    /\ UNCHANGED << docScreen, serverDocs, allDocuments, currentDocIndex,
                    loading, updating, op, alert, notDocs >>

\* ErrorMessage onRetry={fetchDocuments}.
Retry ==
    /\ ~loading
    /\ error # "<null>"
    /\ fetches < MaxFetches
    /\ error' = "<null>"
    /\ fetches' = fetches + 1
    /\ UNCHANGED << docScreen, serverDocs, allDocuments, currentDocIndex,
                    loading, updating, refreshing, op, alert, notDocs >>

\* The response of a fetchDocuments call of mount, refresh or retry.
FetchDocumentsDone(ok) ==
    /\ fetches > 0
    /\ fetches' = fetches - 1
    /\ FetchDocumentsSettles(ok)
    /\ UNCHANGED << docScreen, serverDocs, updating, op, alert, notDocs >>

\* handlePrevious, handleNext and the thumbnails: setCurrentDocIndex(index).
SelectDocument(index) ==
    /\ DocumentShown
    /\ index \in 0 .. (Len(allDocuments) - 1)
    /\ index # currentDocIndex
    /\ currentDocIndex' = index
    /\ UNCHANGED << docScreen, serverDocs, allDocuments, loading, updating,
                    refreshing, error, fetches, op, alert, notDocs >>

\* handleVerify (status = VERIFIED) and handleReject (status = INVALID): the
\* button is disabled while updating and when the document has that status.
HandleVerifyOrReject(status) ==
    /\ DocumentShown
    /\ ~updating
    /\ currentDocument.status # status
    /\ alert' = "confirm"
    /\ op' = [ kind |-> "single", pc |-> "alert",
               docsToVerify |-> << currentDocument.document_id >>,
               status |-> status, sent |-> << >>, acked |-> 0,
               failed |-> FALSE ]
    /\ UNCHANGED << docScreen, serverDocs, allDocuments, currentDocIndex,
                    loading, updating, refreshing, error, fetches, notDocs >>

\* allDocuments.filter((d) => d.status !== 'VERIFIED'), as document_ids.
IsNotVerified(doc) == doc.status # "VERIFIED"

DocumentIds(docs) == [ i \in 1 .. Len(docs) |-> docs[i].document_id ]

docsToVerify(docs) == DocumentIds(SelectSeq(docs, IsNotVerified))

\* handleVerifyAll: disabled while updating and when !canVerifyAll.
HandleVerifyAll ==
    /\ DocumentShown
    /\ ~updating
    /\ Len(docsToVerify(allDocuments)) > 0
    /\ alert' = "confirm"
    /\ op' = [ kind |-> "all", pc |-> "alert",
               docsToVerify |-> docsToVerify(allDocuments),
               status |-> "VERIFIED", sent |-> << >>, acked |-> 0,
               failed |-> FALSE ]
    /\ UNCHANGED << docScreen, serverDocs, allDocuments, currentDocIndex,
                    loading, updating, refreshing, error, fetches, notDocs >>

\* The 'Cancel' button of the confirmation.
AlertCancel ==
    /\ alert = "confirm"
    /\ alert' = "none"
    /\ op' = IdleOp
    /\ UNCHANGED << docScreen, serverDocs, allDocuments, currentDocIndex,
                    loading, updating, refreshing, error, fetches, notDocs >>

\* The confirming button: onPress up to its first await, setUpdating(true)
\* and the first updateDocumentStatus request.
AlertConfirm ==
    /\ alert = "confirm"
    /\ alert' = "none"
    /\ updating' = TRUE
    /\ op' = [ op EXCEPT !.pc = "sending",
                         !.sent = << op.docsToVerify[1] >> ]
    /\ UNCHANGED << docScreen, serverDocs, allDocuments, currentDocIndex,
                    loading, refreshing, error, fetches, notDocs >>

\* The request in flight succeeds: the loop sends the next document, or the
\* loop is over and fetchDocuments runs up to its await.
DocUpdateSucceeds ==
    /\ op.pc = "sending"
    /\ serverDocs' = [ serverDocs EXCEPT ![op.sent[Len(op.sent)]] = op.status ]
    /\ IF Len(op.sent) < Len(op.docsToVerify)
       THEN /\ op' = [ op EXCEPT
                       !.acked = @ + 1,
                       !.sent = Append(@, op.docsToVerify[Len(op.sent) + 1]) ]
            /\ UNCHANGED error
       ELSE /\ op' = [ op EXCEPT !.acked = @ + 1, !.pc = "fetching" ]
            /\ error' = "<null>"
    /\ UNCHANGED << docScreen, allDocuments, currentDocIndex, loading,
                    updating, refreshing, fetches, alert, notDocs >>

\* The request in flight fails: catch (the error Alert), then finally.
DocUpdateFails_continue ==
    /\ op.pc = "sending"
    /\ IF Len(op.sent) < Len(op.docsToVerify)
       THEN /\ op' = [ op EXCEPT
                       !.failed = TRUE,
                       !.sent = Append(@, op.docsToVerify[Len(op.sent) + 1]) ]
            /\ UNCHANGED << alert, updating >>
       ELSE /\ op' = [ op EXCEPT !.pc = "done", !.failed = TRUE ]
            /\ alert' = "Error"
            /\ updating' = FALSE
    /\ UNCHANGED << docScreen, serverDocs, allDocuments, currentDocIndex,
                    loading, refreshing, error, fetches, notDocs >>

DocUpdateFails ==
    /\ op.pc = "sending"
    /\ op' = [ op EXCEPT !.pc = "done", !.failed = TRUE ]
    /\ alert' = "Error"
    /\ updating' = FALSE
    /\ UNCHANGED << docScreen, serverDocs, allDocuments, currentDocIndex,
                    loading, refreshing, error, fetches, notDocs >>

\* `await fetchDocuments()` of the operation returns (fetchDocuments catches
\* its own errors), then the success Alert and the finally block.
OpFetchDone(ok) ==
    /\ op.pc = "fetching"
    /\ FetchDocumentsSettles(ok)
    /\ alert' = "Success"
    /\ updating' = FALSE
    /\ op' = [ op EXCEPT !.pc = "done" ]
    /\ UNCHANGED << docScreen, serverDocs, fetches, notDocs >>

\* The 'OK' button of the success or error Alert.
AlertDismiss ==
    /\ alert \in { "Success", "Error" }
    /\ alert' = "none"
    /\ op' = IdleOp
    /\ UNCHANGED << docScreen, serverDocs, allDocuments, currentDocIndex,
                    loading, updating, refreshing, error, fetches, notDocs >>

NextDocs ==
    \/ OnRefresh
    \/ Retry
    \/ \E ok \in BOOLEAN : FetchDocumentsDone(ok)
    \/ \E index \in 0 .. (MaxDocs - 1) : SelectDocument(index)
    \/ \E status \in { "VERIFIED", "INVALID" } : HandleVerifyOrReject(status)
    \/ HandleVerifyAll
    \/ AlertCancel
    \/ AlertConfirm
    \/ DocUpdateSucceeds
    \/ DocUpdateFails
    \/ \E ok \in BOOLEAN : OpFetchDone(ok)
    \/ AlertDismiss

SpecDocs == InitDocs /\ [][NextDocs]_vars

TypeOKDocs ==
    /\ docScreen \in DocScreens
    /\ serverDocs \in [ DocIds -> DocStatuses ]
    /\ currentDocIndex \in 0 .. (MaxDocs - 1)
    /\ loading \in BOOLEAN /\ updating \in BOOLEAN /\ refreshing \in BOOLEAN
    /\ fetches \in 0 .. MaxFetches
    /\ alert \in { "none", "confirm", "Success", "Error" }
    /\ op.pc \in { "idle", "alert", "sending", "fetching", "done" }

----------------------------------------------------------------------------
\* C21-C22: the documents screens

\* C21: Verify All sends one VERIFIED update for each document that is not
\* VERIFIED in the list of the render in which the button was pressed, in
\* the order of that list and one at a time; after a failed update it sends
\* nothing more; the list is refreshed and the success Alert is shown only
\* when every one of those updates has succeeded; `updating` is true while
\* the operation sends or refreshes and false once it has finished, with
\* the success Alert as with the error Alert.
C21_VerifyAll ==
    /\ [](op.kind = "all" =>
            LET n == Len(op.docsToVerify)
            IN  /\ op.status = "VERIFIED"
                /\ Len(op.sent) <= n
                /\ \A k \in 1 .. Len(op.sent) : op.sent[k] = op.docsToVerify[k]
                /\ Len(op.sent) - op.acked <= 1
                /\ op.pc = "sending" =>
                       updating /\ ~op.failed /\ Len(op.sent) = op.acked + 1
                /\ op.pc = "fetching" =>
                       updating /\ ~op.failed /\ op.acked = n
                /\ op.pc = "done" =>
                       /\ ~updating
                       /\ IF op.failed
                          THEN alert = "Error" /\ op.acked = Len(op.sent) - 1
                          ELSE alert = "Success" /\ op.acked = n
                /\ alert = "Success" => op.acked = n /\ op.sent = op.docsToVerify)
    /\ [][op.kind = "all" /\ op.failed /\ op'.kind = "all"
            => op'.failed /\ op'.sent = op.sent]_vars
    /\ [][op.kind = "all" /\ op'.kind = "all"
            => op'.docsToVerify = op.docsToVerify]_vars
    /\ [][op.kind # "all" /\ op'.kind = "all" =>
            LET nv == { i \in 1 .. Len(allDocuments) :
                            allDocuments[i].status # "VERIFIED" }
                n  == Len(op'.docsToVerify)
            IN  /\ n = Cardinality(nv)
                /\ \A k \in 1 .. n : \E i \in nv :
                       /\ allDocuments[i].document_id = op'.docsToVerify[k]
                       /\ Cardinality({ j \in nv : j < i }) = k - 1]_vars

\* Verify All over three documents: the first update succeeded, the second
\* failed, the third was never sent.
C21_Witness ==
    /\ op.kind = "all"
    /\ op.failed
    /\ Len(op.docsToVerify) = 3
    /\ Len(op.sent) = 2
    /\ serverDocs[op.sent[1]] = "VERIFIED"
    /\ ~updating

----------------------------------------------------------------------------
\* AdminPanel (password screen).  Text is a sequence of characters.

notPassword == << zoomVars, apiVars, carsVars, transfersVars, docsVars >>

\* Characters typed into the password field: a blank and a letter.
Chars == { " ", "a" }

\* Texts typed into the primary-number field.
Numbers == { << >>, << " " >>, << "9" >> }

\* String.prototype.trim
RECURSIVE trimStart(_)
trimStart(t) ==
    IF t # << >> /\ Head(t) = " " THEN trimStart(Tail(t)) ELSE t

RECURSIVE trimEnd(_)
trimEnd(t) ==
    IF t # << >> /\ t[Len(t)] = " "
    THEN trimEnd(SubSeq(t, 1, Len(t) - 1)) ELSE t

trim(t) == trimEnd(trimStart(t))

InitPassword ==
    /\ ZoomParked
    /\ ApiParked
    /\ CarsParked
    /\ TransfersParked
    /\ DocsParked
    /\ PasswordParked

\* onChangeText={setPrimaryNumber}
SetPrimaryNumber(n) ==
    /\ n # primaryNumber
    /\ primaryNumber' = n
    /\ UNCHANGED << newPassword, userDetails, isLoading, isResetting,
                    successMessage, errorMessage, resetCall, notPassword >>

\* onChangeText={setNewPassword}: a character typed or erased at the end.
\* The field is rendered when userDetails is set.
SetNewPassword(text) ==
    /\ userDetails # "<null>"
    /\ Len(text) <= MaxPwLen
    /\ newPassword' = text
    /\ UNCHANGED << primaryNumber, userDetails, isLoading, isResetting,
                    successMessage, errorMessage, resetCall, notPassword >>

\* fetchUserDetails up to `await searchUserDetails(...)`; the button is
\* disabled while isLoading.
FetchUserDetails ==
    /\ ~isLoading
    /\ IF trim(primaryNumber) = << >>
       THEN /\ errorMessage' = "Please enter a primary number"
            /\ UNCHANGED << successMessage, isLoading, userDetails >>
       ELSE /\ successMessage' = ""
            /\ errorMessage' = ""
            /\ isLoading' = TRUE
            /\ userDetails' = "<null>"
    /\ UNCHANGED << primaryNumber, newPassword, isResetting, resetCall,
                    notPassword >>

\* fetchUserDetails after the await: try or catch, then finally.
SearchSettles(ok) ==
    /\ isLoading
    /\ IF ok
       THEN /\ userDetails' = "user"
            /\ successMessage' = "User details fetched successfully"
            /\ UNCHANGED errorMessage
       ELSE /\ errorMessage' = "Failed to fetch user details"
            /\ UNCHANGED << userDetails, successMessage >>
    /\ isLoading' = FALSE
    /\ UNCHANGED << primaryNumber, newPassword, isResetting, resetCall,
                    notPassword >>

\* resetPassword up to `await resetUserPassword(...)`, which posts
\* { role, id, password }; the button is rendered when userDetails is set
\* and disabled while isResetting.
ResetPassword ==
    /\ userDetails # "<null>"
    /\ ~isResetting
    /\ IF userDetails = "<null>"
       THEN /\ errorMessage' = "Please fetch user details first"
            /\ UNCHANGED << successMessage, isResetting, resetCall >>
       ELSE IF trim(newPassword) = << >>
       THEN /\ errorMessage' = "Please enter a new password"
            /\ UNCHANGED << successMessage, isResetting, resetCall >>
       ELSE IF Len(newPassword) < 6
       THEN /\ errorMessage' = "Password must be at least 6 characters long"
            /\ UNCHANGED << successMessage, isResetting, resetCall >>
       ELSE /\ successMessage' = ""
            /\ errorMessage' = ""
            /\ isResetting' = TRUE
            /\ resetCall' = [ pc |-> "sent", id |-> userDetails,
                              password |-> trim(newPassword) ]
    /\ UNCHANGED << primaryNumber, newPassword, userDetails, isLoading,
                    notPassword >>

\* resetPassword after the await: the server answers 'Password reset
\* successfully', another message, or the request fails; then finally.
ResetSettles(outcome) ==
    /\ resetCall.pc = "sent"
    /\ resetCall' = NoReset
    /\ isResetting' = FALSE
    /\ IF outcome = "Password reset successfully"
       THEN /\ successMessage' = "Password reset successfully!"
            /\ newPassword' = << >>
            /\ UNCHANGED errorMessage
       ELSE /\ errorMessage' = "Failed to reset password"
            /\ UNCHANGED << successMessage, newPassword >>
    /\ UNCHANGED << primaryNumber, userDetails, isLoading, notPassword >>

\* resetForm
ResetForm ==
    /\ primaryNumber' = << >>
    /\ newPassword' = << >>
    /\ userDetails' = "<null>"
    /\ successMessage' = ""
    /\ errorMessage' = ""
    /\ UNCHANGED << isLoading, isResetting, resetCall, notPassword >>

NextPassword ==
    \/ \E n \in Numbers : SetPrimaryNumber(n)
    \/ \E ch \in Chars : SetNewPassword(Append(newPassword, ch))
    \/ newPassword # << >>
           /\ SetNewPassword(SubSeq(newPassword, 1, Len(newPassword) - 1))
    \/ FetchUserDetails
    \/ \E ok \in BOOLEAN : SearchSettles(ok)
    \/ ResetPassword
    \/ \E outcome \in { "Password reset successfully", "refused", "throws" } :
           ResetSettles(outcome)
    \/ ResetForm

SpecPassword == InitPassword /\ [][NextPassword]_vars

\* C23: a call of resetPassword either sends a request, and then user
\* details have been fetched and the password the request carries is at
\* least 6 characters long (so not empty), or it sets an error message and
\* sends nothing.
C23_ResetValidated ==
    [][(~isResetting /\ userDetails # "<null>" /\ ResetPassword)
       => IF resetCall'.pc = "sent"
          THEN /\ resetCall'.id # "<null>"
               /\ resetCall'.password # << >>
               /\ Len(resetCall'.password) >= 6
          ELSE /\ errorMessage' # ""
               /\ resetCall' = resetCall]_vars

----------------------------------------------------------------------------
\* C24-C27: ZoomableImage, overlapping gestures

\* C24: while a pan is active (before and after the step) nothing writes
\* savedTranslateX or savedTranslateY, so the base the pan updates add their
\* cumulative delta to is the translation committed when the pan started,
\* also across the end of a pinch.
C24_PanBaseStable ==
    [][panActive /\ panActive'
       => /\ savedTranslateX' = savedTranslateX
          /\ savedTranslateY' = savedTranslateY]_vars

\* C25: with both gestures active, a pinch update with factor m and a pan
\* update with delta d give the same scale and translation in either order.
\* Pinch first: the pan update clamps base + d to the bounds of the new
\* scale.  Pan first: it clamps base + d to the bounds of the old scale and
\* the pinch update clamps that to the bounds of the new scale.
C25_UpdatesCommute ==
    (pinchActive /\ panActive) =>
        \A m \in PinchScales, d \in PanDeltas :
            OnGrid(savedScale, m[1], m[2]) =>
                LET newScale == ClampScale(savedScale, m[1], m[2])
                    oldX == width * (scale - ScaleDen)
                    oldY == height * (scale - ScaleDen)
                    newX == width * (newScale - ScaleDen)
                    newY == height * (newScale - ScaleDen)
                    toX  == savedTranslateX + d[1] * PxUnits
                    toY  == savedTranslateY + d[2] * PxUnits
                IN  /\ clamp(toX, -newX, newX)
                         = clamp(clamp(toX, -oldX, oldX), -newX, newX)
                    /\ clamp(toY, -newY, newY)
                         = clamp(clamp(toY, -oldY, oldY), -newY, newY)

\* The gestures as they run when each one that starts ends through its end
\* handler (no cancellation).
NextEnded ==
    \/ PinchStart
    \/ \E m \in PinchScales : PinchUpdate(m[1], m[2])
    \/ PinchEnd
    \/ PanStart
    \/ \E d \in PanDeltas : PanUpdate(d[1], d[2])
    \/ PanEnd

SpecEnded == Init /\ [][NextEnded]_vars

\* C26: when every gesture that started has ended through its end handler
\* and both gestures are idle, the saved values equal the current ones.
C26_IdleMeansCommitted ==
    (~pinchActive /\ ~panActive) =>
        /\ savedScale = scale
        /\ savedTranslateX = translateX
        /\ savedTranslateY = translateY

\* Both gestures have ended, the pan last, on a zoomed and panned image.
C26_Witness ==
    /\ ~pinchActive
    /\ ~panActive
    /\ last = "panEnd"
    /\ scale = MAX_SCALE * ScaleDen
    /\ translateX # 0
    /\ translateY # 0

\* C27: a pinch update leaves each component of the translation with its
\* sign (or makes it 0) and does not increase its absolute value.
C27_PinchUpdatePullsInward ==
    [][(pinchActive /\ last' = "pinchUpdate")
       => /\ translateX * translateX' >= 0
          /\ translateY * translateY' >= 0
          /\ Abs(translateX') <= Abs(translateX)
          /\ Abs(translateY') <= Abs(translateY)
          /\ translateX = 0 => translateX' = 0
          /\ translateY = 0 => translateY' = 0]_vars

\* Within one pinch the zoom went below the committed scale and back above
\* it: the offset the zoom-out clamped away has not come back.
C27_Witness ==
    /\ pinchActive
    /\ last = "pinchUpdate"
    /\ scale > savedScale
    /\ translateX = 0
    /\ savedTranslateX # 0

====
